---- MODULE Spec2Model ----
(***************************************************************************)
(* Model of the performance-counter table compiler of build.rs: the field  *)
(* decoders (parse_bool, parse_number, parse_counter_values,               *)
(* parse_counters), the file-name functions (get_file_suffix,              *)
(* make_file_name) and the compile pass performance_counter::main with     *)
(* parse_performance_counters.                                             *)
(*                                                                         *)
(* A Rust &str / String is a sequence of one-character strings, so that    *)
(* trim, split, contains, find, starts_with and the numeral parsers are    *)
(* computed character by character as the code computes them.              *)
(***************************************************************************)
EXTENDS Integers, Sequences, FiniteSets, TLC

VARIABLES
    pc,             \* position of main: "load", "map", "group", "emit", "done", "panic"
    error,          \* which panic ended the pass ("none" while running)
    mapfile,        \* the records of mapfile.csv read so far (rdr.records())
    data_files,     \* HashMap<String, Vec<(String, String, String)>> of main
    created,        \* File::create(counters.rs) has succeeded
    buf,            \* text written to filewriter, still in the BufWriter
    disk,           \* text that reached counters.rs
    builder,        \* phf_codegen::Map of main: sequence of <<key, value>> entries
    inserted,       \* key set of HashMap `inserted` of main
    order,          \* iteration order of data_files taken so far (a HashMap iterates in an arbitrary, fixed order)
    architectures,  \* HashMap<String, Vec<String>> of main
    processed,      \* keys of architectures the last loop of main has taken
    cur,            \* parse_performance_counters in progress: its arguments and position
    parsed,         \* data files read so far: file name -> event names of its records
    input,          \* argument of the decoder under test
    call,           \* which decoder was applied to input, and under which build profile
    ret             \* what it returned

vars == << pc, error, mapfile, data_files, created, buf, disk, builder, inserted,
           order, architectures, processed, cur, parsed, input, call, ret >>

mainVars == << pc, error, mapfile, data_files, created, buf, disk, builder, inserted,
               order, architectures, processed, cur, parsed >>

parseVars == << input, call, ret >>

(***************************************************************************)
(* Bounds.                                                                 *)
(***************************************************************************)
MaxLen == 4         \* longest enumerated decoder input
MaxRows == 2        \* most records in mapfile.csv
MaxRecords == 1     \* most records in one data file

(***************************************************************************)
(* Results: a returned value or a panic.                                   *)
(***************************************************************************)
Ok(v) == [ok |-> TRUE, v |-> v]

Panic(msg) == [ok |-> FALSE, err |-> msg]

(***************************************************************************)
(* String primitives of the standard library, on character sequences.      *)
(***************************************************************************)
UpperLetters == <<"A","B","C","D","E","F","G","H","I","J","K","L","M","N","O","P","Q","R","S","T","U","V","W","X","Y","Z">>

LowerLetters == <<"a","b","c","d","e","f","g","h","i","j","k","l","m","n","o","p","q","r","s","t","u","v","w","x","y","z">>

Digits == <<"0","1","2","3","4","5","6","7","8","9","a","b","c","d","e","f">>

WhiteSpace == {" ", "\t", "\n"}

LowerChar(c) ==
    IF \E i \in 1..26 : UpperLetters[i] = c
    THEN LowerLetters[CHOOSE i \in 1..26 : UpperLetters[i] = c]
    ELSE c

UpperChar(c) ==
    IF \E i \in 1..26 : LowerLetters[i] = c
    THEN UpperLetters[CHOOSE i \in 1..26 : LowerLetters[i] = c]
    ELSE c

to_lowercase(s) == [i \in 1..Len(s) |-> LowerChar(s[i])]

to_ascii_uppercase(s) == [i \in 1..Len(s) |-> UpperChar(s[i])]

\* str::replace for a one-character pattern
replace(s, from, to) == [i \in 1..Len(s) |-> IF s[i] = from THEN to ELSE s[i]]

\* &s[n..]
From(s, n) == SubSeq(s, n + 1, Len(s))

\* &s[..n]
Upto(s, n) == SubSeq(s, 1, n)

starts_with(s, p) == Len(s) >= Len(p) /\ \A k \in 1..Len(p) : s[k] = p[k]

MatchAt(s, p, i) ==
    i + Len(p) - 1 <= Len(s) /\ \A k \in 1..Len(p) : s[i + k - 1] = p[k]

contains(s, p) == \E i \in 1..(Len(s) + 1) : MatchAt(s, p, i)

\* str::find: the byte offset (from 0) of the first match, or -1 for None
find(s, p) ==
    IF contains(s, p)
    THEN (CHOOSE i \in 1..(Len(s) + 1) :
              MatchAt(s, p, i) /\ \A j \in 1..(i - 1) : ~MatchAt(s, p, j)) - 1
    ELSE -1

\* str::trim
trim(s) ==
    LET keep == {i \in 1..Len(s) : s[i] \notin WhiteSpace}
    IN  IF keep = {} THEN <<>>
        ELSE SubSeq(s, CHOOSE i \in keep : \A j \in keep : i <= j,
                       CHOOSE i \in keep : \A j \in keep : i >= j)

\* str::split(sep): the pieces between the separators, empty pieces included
RECURSIVE split(_, _)
split(s, sep) ==
    LET hits == {i \in 1..Len(s) : s[i] = sep}
    IN  IF hits = {} THEN <<s>>
        ELSE LET i == CHOOSE h \in hits : \A g \in hits : h <= g
             IN  <<SubSeq(s, 1, i - 1)>> \o split(SubSeq(s, i + 1, Len(s)), sep)

\* char::to_digit(radix): the digit's value, or -1
DigitValue(c, radix) ==
    LET l == LowerChar(c)
    IN  IF \E d \in 1..radix : Digits[d] = l
        THEN (CHOOSE d \in 1..radix : Digits[d] = l) - 1
        ELSE -1

RECURSIVE DigitsValue(_, _, _)
DigitsValue(s, radix, acc) ==
    IF s = <<>> THEN acc
    ELSE DigitsValue(Tail(s), radix, acc * radix + DigitValue(Head(s), radix))

\* u64::from_str_radix: an optional "+", then one or more digits of the radix.
\* The numerals of this model stay far below 2^64, so PosOverflow cannot occur.
from_str_radix(s, radix) ==
    LET body == IF s # <<>> /\ Head(s) = "+" THEN Tail(s) ELSE s
    IN  IF s = <<>> THEN Panic("Empty")
        ELSE IF body = <<>> THEN Panic("InvalidDigit")
        ELSE IF \E i \in 1..Len(body) : DigitValue(body[i], radix) < 0
             THEN Panic("InvalidDigit")
        ELSE Ok(DigitsValue(body, radix, 0))

\* {:#x} formatting of a u64: "0x", then lower-case digits without leading zeros
RECURSIVE HexDigitsOf(_)
HexDigitsOf(n) ==
    IF n < 16 THEN <<Digits[n + 1]>>
    ELSE HexDigitsOf(n \div 16) \o <<Digits[(n % 16) + 1]>>

to_hex(n) == <<"0","x">> \o HexDigitsOf(n)

(***************************************************************************)
(* A u64 bit mask is the set of its set bits (a subset of 0..63): `|` is   *)
(* union and `mask <= u8::max_value()` is "no bit above 7".                *)
(***************************************************************************)
RECURSIVE Pow2(_)
Pow2(n) == IF n = 0 THEN 1 ELSE 2 * Pow2(n - 1)

RECURSIVE MaskValue(_)
MaskValue(bits) ==
    IF bits = {} THEN 0
    ELSE LET b == CHOOSE x \in bits : TRUE
         IN  Pow2(b) + MaskValue(bits \ {b})

FitsU8(bits) == \A b \in bits : b <= 7

(***************************************************************************)
(* The field decoders.                                                     *)
(***************************************************************************)
parse_bool_untrimmed(s) ==
    IF s = <<"0">> THEN Ok(FALSE)
    ELSE IF s = <<"1">> THEN Ok(TRUE)
    ELSE Panic("Unknown boolean value")

parse_bool(s) ==
    LET t == trim(s)
    IN  IF t = <<"0">> THEN Ok(FALSE)
        ELSE IF t = <<"1">> THEN Ok(TRUE)
        ELSE Panic("Unknown boolean value")

parse_number_decimal_only(value_str) ==
    LET r == from_str_radix(value_str, 10)
    IN  IF r.ok THEN r ELSE Panic("Can not parse")

parse_number(value_str) ==
    IF Len(value_str) > 2 /\ starts_with(Upto(value_str, 2), <<"0","x">>)
    THEN LET r == from_str_radix(From(value_str, 2), 16)
         IN  IF r.ok THEN r ELSE Panic("Can not parse")
    ELSE LET r == from_str_radix(value_str, 10)
         IN  IF r.ok THEN r ELSE Panic("Can not parse")

\* `1 << c` on u64: with overflow checks a shift by 64 or more panics, without
\* them the shift amount wraps to c % 64.
RECURSIVE FoldCounterValues(_, _, _)
FoldCounterValues(tokens, acc, overflow_checks) ==
    IF tokens = <<>> THEN Ok(acc)
    ELSE LET x == trim(Head(tokens))
             r == from_str_radix(x, 10)
         IN  IF x = <<>> THEN FoldCounterValues(Tail(tokens), acc, overflow_checks)
             ELSE IF ~r.ok THEN Panic("Can not parse")
             ELSE IF r.v >= 64 /\ overflow_checks THEN Panic("attempt to shift left with overflow")
             ELSE FoldCounterValues(Tail(tokens), acc \cup {r.v % 64}, overflow_checks)

parse_counter_values(value_str, overflow_checks) ==
    FoldCounterValues(split(value_str, ","), {}, overflow_checks)

Counter(kind, mask) ==
    IF ~mask.ok THEN mask
    ELSE IF ~FitsU8(mask.v) THEN Panic("assertion failed: mask <= u8::max_value()")
    ELSE Ok([kind |-> kind, mask |-> MaskValue(mask.v)])

parse_counters_short_prefix(value_str, overflow_checks) ==
    IF starts_with(to_lowercase(value_str), <<"f","i","x","e","d">>)
    THEN Counter("Fixed", parse_counter_values(From(value_str, 5), overflow_checks))
    ELSE Counter("Programmable", parse_counter_values(value_str, overflow_checks))

parse_counters(value_str, overflow_checks) ==
    IF starts_with(to_lowercase(value_str), <<"f","i","x","e","d"," ","c","o","u","n","t","e","r">>)
    THEN Counter("Fixed", parse_counter_values(From(value_str, 13), overflow_checks))
    ELSE IF starts_with(to_lowercase(value_str), <<"f","i","x","e","d">>)
    THEN Counter("Fixed", parse_counter_values(From(value_str, 5), overflow_checks))
    ELSE Counter("Programmable", parse_counter_values(value_str, overflow_checks))

(***************************************************************************)
(* The file-name functions.                                                *)
(***************************************************************************)
get_file_suffix_default_core(file_name) ==
    IF contains(file_name, <<"_","c","o","r","e","_">>) THEN Ok("core")
    ELSE IF contains(file_name, <<"_","u","n","c","o","r","e","_">>) THEN Ok("uncore")
    ELSE IF contains(file_name, <<"_","m","a","t","r","i","x","_">>) THEN Ok("matrix")
    ELSE IF \/ contains(file_name, <<"_","F","P","_","A","R","I","T","H","_","I","N","S","T","_">>)
            \/ contains(file_name, <<"_","f","p","_","a","r","i","t","h","_","i","n","s","t","_">>)
         THEN Ok("fparith")
    ELSE Ok("core")

get_file_suffix(file_name) ==
    IF contains(file_name, <<"_","c","o","r","e","_">>) THEN Ok("core")
    ELSE IF contains(file_name, <<"_","u","n","c","o","r","e","_">>) THEN Ok("uncore")
    ELSE IF contains(file_name, <<"_","m","a","t","r","i","x","_">>) THEN Ok("matrix")
    ELSE IF \/ contains(file_name, <<"_","F","P","_","A","R","I","T","H","_","I","N","S","T","_">>)
            \/ contains(file_name, <<"_","f","p","_","a","r","i","t","h","_","i","n","s","t","_">>)
         THEN Ok("fparith")
    ELSE Panic("Unknown suffix")

\* Path::file_stem: the last component of the path, without its extension
file_stem(path) ==
    LET slashes == {i \in 1..Len(path) : path[i] = "/"}
        start == IF slashes = {} THEN 1
                 ELSE (CHOOSE i \in slashes : \A j \in slashes : i >= j) + 1
        name == SubSeq(path, start, Len(path))
        dots == {i \in 2..Len(name) : name[i] = "."}
    IN  IF dots = {} THEN name
        ELSE SubSeq(name, 1, (CHOOSE i \in dots : \A j \in dots : i >= j) - 1)

\* the pair (output_file, variable_upper), or the failed assertion
make_file_name(path) ==
    LET stem == file_stem(path)
        core == find(stem, <<"_","c","o","r","e">>)
        core_start == IF core < 0 THEN find(stem, <<"_","u","n","c","o","r","e">>) ELSE core
    IN  IF core_start < 0 THEN Panic("assertion failed: !core_start.is_none()")
        ELSE LET output_file == Upto(stem, core_start)
                 variable == Upto(stem, core_start)
                 uppercase == to_ascii_uppercase(variable)
                 variable_clean == replace(uppercase, "-", "_")
             IN  Ok(<<output_file, SubSeq(variable_clean, 1, Len(variable_clean))>>)

(***************************************************************************)
(* The state of main after the csv reader and data_files are constructed.  *)
(***************************************************************************)
NoCall == [active |-> FALSE, variable |-> <<>>, inputs |-> <<>>, next |-> 1, builder_values |-> {}]

MainInit ==
    /\ pc = "load"
    /\ error = "none"
    /\ mapfile = <<>>
    /\ data_files = <<>>
    /\ created = FALSE
    /\ buf = <<>>
    /\ disk = <<>>
    /\ builder = <<>>
    /\ inserted = {}
    /\ order = <<>>
    /\ architectures = <<>>
    /\ processed = {}
    /\ cur = NoCall
    /\ parsed = <<>>

(***************************************************************************)
(* The inputs of the pass: the records of mapfile.csv and the contents of  *)
(* the data files under x86data/perfmon_data.                              *)
(***************************************************************************)
Files ==
    { <<"/","a","_","c","o","r","e","_","1",".","j">>,
      <<"/","a","_","u","n","c","o","r","e","_","1",".","j">>,
      <<"/","A","-","b","_","c","o","r","e","_","2",".","j">>,
      <<"/","a","_","b","_","c","o","r","e","_","3",".","j">>,
      <<"/","m","_","m","a","t","r","i","x","_","1",".","j">>,
      <<"/","f","_","F","P","_","A","R","I","T","H","_","I","N","S","T","_","1",".","j">>,
      <<"/","f","_","f","p","_","a","r","i","t","h","_","i","n","s","t","_","1",".","j">>,
      <<"/","a","_","c","o","r","e",".","j">>,
      <<"/","d","_","c","o","r","e","_","/","x",".","j">> }

Signatures == {"GenuineIntel-6-2E", "GenuineIntel-6-1E"}

Versions == {"V1"}

EventTypes == {"core"}

Records ==
    [family_model : Signatures, version : Versions, file_name : Files, event_type : EventTypes]

EventNames == {"INST_RETIRED.ANY"}

\* the eventname fields of the records of a well-formed data file
Contents == UNION {[1..k -> EventNames] : k \in 0..MaxRecords}

Range(f) == {f[x] : x \in DOMAIN f}

(***************************************************************************)
(* The compile pass, performance_counter::main.                            *)
(***************************************************************************)
\* A panic unwinds main: filewriter, if it exists, is dropped, and dropping a
\* BufWriter writes its buffer out.
Abort(msg) ==
    /\ pc' = "panic"
    /\ error' = msg
    /\ disk' = disk \o buf
    /\ buf' = <<>>

InsertRecord_overwrite(files, record, suffix) ==
    IF suffix = "core" \/ suffix = "uncore"
    THEN LET entry == <<record.family_model, record.version, record.event_type>>
         IN  [f \in (DOMAIN files) \cup {record.file_name} |->
                 IF f = record.file_name THEN <<entry>> ELSE files[f]]
    ELSE files

\* the body of the loop over the records, after the suffix is known
InsertRecord(files, record, suffix) ==
    IF suffix = "core" \/ suffix = "uncore"
    THEN LET entry == <<record.family_model, record.version, record.event_type>>
         IN  IF record.file_name \notin DOMAIN files
             THEN [f \in (DOMAIN files) \cup {record.file_name} |->
                      IF f = record.file_name THEN <<entry>> ELSE files[f]]
             ELSE [files EXCEPT ![record.file_name] = Append(@, entry)]
    ELSE files

\* one record of the mapfile
ReadRecord ==
    /\ pc = "load"
    /\ Len(mapfile) < MaxRows
    /\ \E record \in Records :
          LET suffix == get_file_suffix(record.file_name)
          IN  /\ mapfile' = Append(mapfile, record)
              /\ IF suffix.ok
                 THEN /\ data_files' = InsertRecord(data_files, record, suffix.v)
                      /\ UNCHANGED << pc, error, buf, disk >>
                 ELSE /\ Abort(suffix.err)
                      /\ UNCHANGED data_files
    /\ UNCHANGED << created, builder, inserted, order, architectures, processed, cur,
                    parsed, parseVars >>

\* the records are exhausted; counters.rs is created in OUT_DIR
CreateOutput ==
    /\ pc = "load"
    /\ \E success \in BOOLEAN :
          IF success
          THEN /\ created' = TRUE
               /\ pc' = "map"
               /\ UNCHANGED << error, buf, disk >>
          ELSE /\ Abort("File::create")
               /\ UNCHANGED created
    /\ UNCHANGED << mapfile, data_files, builder, inserted, order, architectures,
                    processed, cur, parsed, parseVars >>

RECURSIVE InsertEntries_last_wins(_, _, _, _)
InsertEntries_last_wins(entries, seen, values, variable_upper) ==
    IF values = <<>> THEN [builder |-> entries, inserted |-> seen]
    ELSE LET family_model == Head(values)[1]
             others == SelectSeq(entries, LAMBDA e : e[1] # family_model)
         IN  InsertEntries_last_wins(Append(others, <<family_model, variable_upper>>),
                                     seen \cup {family_model}, Tail(values), variable_upper)

\* the loop over the tuples of one file
RECURSIVE InsertEntries(_, _, _, _)
InsertEntries(entries, seen, values, variable_upper) ==
    IF values = <<>> THEN [builder |-> entries, inserted |-> seen]
    ELSE LET family_model == Head(values)[1]
         IN  IF family_model \notin seen
             THEN InsertEntries(Append(entries, <<family_model, variable_upper>>),
                                seen \cup {family_model}, Tail(values), variable_upper)
             ELSE InsertEntries(entries, seen, Tail(values), variable_upper)

\* one file of `for (file, values) in &data_files`, in the order the map yields
BuildEntries ==
    /\ pc = "map"
    /\ \E file \in (DOMAIN data_files) \ Range(order) :
          LET name == make_file_name(file)
          IN  IF name.ok
              THEN LET r == InsertEntries(builder, inserted, data_files[file], name.v[2])
                   IN  /\ builder' = r.builder
                       /\ inserted' = r.inserted
                       /\ order' = Append(order, file)
                       /\ UNCHANGED << pc, error, buf, disk >>
              ELSE /\ Abort(name.err)
                   /\ UNCHANGED << builder, inserted, order >>
    /\ UNCHANGED << mapfile, data_files, created, architectures, processed, cur,
                    parsed, parseVars >>

\* phf_codegen refuses to build a map with a repeated key
HasDuplicateKey(entries) ==
    \E i, j \in 1..Len(entries) : i # j /\ entries[i][1] = entries[j][1]

\* COUNTER_MAP is written to filewriter
WriteCounterMap ==
    /\ pc = "map"
    /\ Range(order) = DOMAIN data_files
    /\ IF HasDuplicateKey(builder)
       THEN Abort("duplicate key")
       ELSE /\ buf' = Append(buf, [item |-> "COUNTER_MAP", variable |-> <<>>, entries |-> builder])
            /\ pc' = "group"
            /\ UNCHANGED << error, disk >>
    /\ UNCHANGED << mapfile, data_files, created, builder, inserted, order, architectures,
                    processed, cur, parsed, parseVars >>

AddArchitecture_by_output_file(archs, file) ==
    LET key == make_file_name(file).v[1]
    IN  IF key \in DOMAIN archs
        THEN [archs EXCEPT ![key] = Append(@, file)]
        ELSE [a \in (DOMAIN archs) \cup {key} |-> IF a = key THEN <<file>> ELSE archs[a]]

\* architectures.entry(variable_upper).or_insert_with(Vec::new).push(file)
AddArchitecture(archs, file) ==
    LET key == make_file_name(file).v[2]
    IN  IF key \in DOMAIN archs
        THEN [archs EXCEPT ![key] = Append(@, file)]
        ELSE [a \in (DOMAIN archs) \cup {key} |-> IF a = key THEN <<file>> ELSE archs[a]]

RECURSIVE AddArchitectures(_, _)
AddArchitectures(archs, files) ==
    IF files = <<>> THEN archs
    ELSE AddArchitectures(AddArchitecture(archs, Head(files)), Tail(files))

\* the loop over data_files.keys(): the map is unchanged since the loop before,
\* so it yields its keys in the same order
GroupArchitectures ==
    /\ pc = "group"
    /\ architectures' = AddArchitectures(architectures, order)
    /\ pc' = "emit"
    /\ UNCHANGED << error, mapfile, data_files, created, buf, disk, builder, inserted,
                    order, processed, cur, parsed, parseVars >>

\* one (arch, files) of `for (ref arch, ref files) in architectures`: the call
\* of parse_performance_counters starts with empty builder_values
CallParsePerformanceCounters ==
    /\ pc = "emit"
    /\ ~cur.active
    /\ \E arch \in (DOMAIN architectures) \ processed :
          /\ cur' = [active |-> TRUE, variable |-> arch, inputs |-> architectures[arch],
                     next |-> 1, builder_values |-> {}]
          /\ processed' = processed \cup {arch}
    /\ UNCHANGED << pc, error, mapfile, data_files, created, buf, disk, builder, inserted,
                    order, architectures, parsed, parseVars >>

\* the loop over the records of one data file: each entry is printed, and
\* nothing is put into builder_values
CollectEntries(builder_values, data) == builder_values

\* one input of parse_performance_counters is opened and deserialized
ReadDataFile ==
    /\ pc = "emit"
    /\ cur.active
    /\ cur.next <= Len(cur.inputs)
    /\ LET file == cur.inputs[cur.next]
       IN  \E outcome \in {"missing", "malformed", "parsed"} :
              IF outcome = "missing" THEN
                  /\ Abort("File::open")
                  /\ UNCHANGED << cur, parsed >>
              ELSE IF outcome = "malformed" THEN
                  /\ Abort("serde_json::from_reader")
                  /\ UNCHANGED << cur, parsed >>
              ELSE IF ~get_file_suffix(file).ok THEN
                  /\ Abort(get_file_suffix(file).err)
                  /\ UNCHANGED << cur, parsed >>
              ELSE \E data \in Contents :
                  /\ parsed' = [f \in (DOMAIN parsed) \cup {file} |->
                                   IF f = file THEN data ELSE parsed[f]]
                  /\ cur' = [cur EXCEPT !.next = @ + 1,
                                        !.builder_values = CollectEntries(@, data)]
                  /\ UNCHANGED << pc, error, buf, disk >>
    /\ UNCHANGED << mapfile, data_files, created, builder, inserted, order, architectures,
                    processed, parseVars >>

\* the table of the architecture is written and the writer flushed
WriteTable ==
    /\ pc = "emit"
    /\ cur.active
    /\ cur.next > Len(cur.inputs)
    /\ disk' = disk \o Append(buf, [item |-> "table", variable |-> cur.variable,
                                    entries |-> cur.builder_values])
    /\ buf' = <<>>
    /\ cur' = NoCall
    /\ UNCHANGED << pc, error, mapfile, data_files, created, builder, inserted, order,
                    architectures, processed, parsed, parseVars >>

\* main returns; filewriter is dropped
Return ==
    /\ pc = "emit"
    /\ ~cur.active
    /\ processed = DOMAIN architectures
    /\ pc' = "done"
    /\ disk' = disk \o buf
    /\ buf' = <<>>
    /\ UNCHANGED << error, mapfile, data_files, created, builder, inserted, order,
                    architectures, processed, cur, parsed, parseVars >>

Init ==
    /\ MainInit
    /\ input = <<>>
    /\ call = [fn |-> "none", overflow_checks |-> FALSE]
    /\ ret = Panic("not called")

Next ==
    \/ ReadRecord
    \/ CreateOutput
    \/ BuildEntries
    \/ WriteCounterMap
    \/ GroupArchitectures
    \/ CallParsePerformanceCounters
    \/ ReadDataFile
    \/ WriteTable
    \/ Return

Spec == Init /\ [][Next]_vars

(***************************************************************************)
(* The decoders on their own: each is applied once to an input string.     *)
(* The build profile (overflow checks on or off) is fixed before the run.  *)
(***************************************************************************)
Alphabet == {"0", "1", "6", ",", " ", "x", "a", "A"}

StringsUpTo(n) == UNION {[1..k -> Alphabet] : k \in 0..n}

Examples ==
    { <<"F","i","x","e","d"," ","c","o","u","n","t","e","r"," ","0",",","1">>,
      <<"f","i","x","e","d"," ","c","o","u","n","t","e","r"," ","2">>,
      <<"f","i","x","e","d"," ","c","o","u","n","t","e","r">>,
      <<"F","I","X","E","D"," ","1">>,
      <<"F","i","x","e","d"," ","8">>,
      <<"f","i","x","e","d","6","6">>,
      <<"0",",","1",",","3">>,
      <<"0",",","1",",","2">>,
      <<"+","1">>,
      <<"\t","1","\n">>,
      <<"0","x","0","0","f","f">> }

Inputs == StringsUpTo(MaxLen) \cup Examples

InitParse ==
    /\ MainInit
    /\ input \in Inputs
    /\ \E oc \in BOOLEAN : call = [fn |-> "none", overflow_checks |-> oc]
    /\ ret = Panic("not called")

Apply(fn, result) ==
    /\ call.fn = "none"
    /\ call' = [call EXCEPT !.fn = fn]
    /\ ret' = result
    /\ UNCHANGED << input, mainVars >>

CallParseBool == Apply("parse_bool", parse_bool(input))

CallParseNumber == Apply("parse_number", parse_number(input))

CallParseCounterValues ==
    Apply("parse_counter_values", parse_counter_values(input, call.overflow_checks))

CallParseCounters ==
    Apply("parse_counters", parse_counters(input, call.overflow_checks))

NextParse ==
    \/ CallParseBool
    \/ CallParseNumber
    \/ CallParseCounterValues
    \/ CallParseCounters

SpecParse == InitParse /\ [][NextParse]_vars

(***************************************************************************)
(* Properties of the decoders (specification SpecParse).                   *)
(***************************************************************************)
Called(fn) == call.fn = fn

Returned(v) == ret.ok /\ ret.v = v

\* the input is blank characters around the single character c
IsPadded(s, c) ==
    \E i \in 1..Len(s) : s[i] = c /\ \A j \in 1..Len(s) : j # i => s[j] \in WhiteSpace

\* C6 as stated: parse_bool returns false for "0", true for "1" and fails for
\* every other input, whitespace-padded "0" and "1" included.
C6_LiteralTokensOnly ==
    Called("parse_bool") =>
        /\ input = <<"0">> => Returned(FALSE)
        /\ input = <<"1">> => Returned(TRUE)
        /\ input \notin {<<"0">>, <<"1">>} => ~ret.ok

\* C6 amended: parse_bool returns false when the input is "0" with any
\* surrounding whitespace, true when it is "1" with any surrounding
\* whitespace, and fails for every other input.
C6_TrimmedTokens ==
    Called("parse_bool") =>
        /\ IsPadded(input, "0") => Returned(FALSE)
        /\ IsPadded(input, "1") => Returned(TRUE)
        /\ ~IsPadded(input, "0") /\ ~IsPadded(input, "1") => ~ret.ok

C6_Witness ==
    Called("parse_bool") /\ input = <<" ", "1">> /\ Returned(TRUE)

\* the values of the non-empty tokens of a comma-separated list
TokensOf(s) ==
    LET pieces == split(s, ",")
    IN  {trim(pieces[i]) : i \in 1..Len(pieces)} \ {<<>>}

IsDecimal(t) == t # <<>> /\ \A i \in 1..Len(t) : DigitValue(t[i], 10) >= 0

IsBitList(s) == \A t \in TokensOf(s) : IsDecimal(t)

BitsOf(s) == {DigitsValue(t, 10, 0) : t \in TokensOf(s)}

\* C7: for a comma-separated list of decimal values parse_counter_values
\* returns the OR of 1<<v over the non-empty tokens v ("0,1,3" gives 11), and
\* parse_counters fails whenever that mask does not fit in 8 bits.
C7_BitListDecoding ==
    /\ Called("parse_counter_values") /\ IsBitList(input) /\ ret.ok => ret.v = BitsOf(input)
    /\ Called("parse_counter_values") /\ input = <<"0",",","1",",","3">> =>
           ret.ok /\ MaskValue(ret.v) = 11
    /\ Called("parse_counters") /\ IsBitList(input) /\ ~FitsU8(BitsOf(input)) => ~ret.ok

CaseInsensitivePrefix(s, p) ==
    Len(s) >= Len(p) /\ \A i \in 1..Len(p) : LowerChar(s[i]) = p[i]

FixedCounterPrefix == <<"f","i","x","e","d"," ","c","o","u","n","t","e","r">>

FixedPrefix == <<"f","i","x","e","d">>

LongestPrefixLen(s) ==
    IF CaseInsensitivePrefix(s, FixedCounterPrefix) THEN Len(FixedCounterPrefix)
    ELSE IF CaseInsensitivePrefix(s, FixedPrefix) THEN Len(FixedPrefix)
    ELSE 0

\* C8: parse_counters gives Fixed(m) for a string that starts, ignoring case,
\* with "fixed counter" or "fixed", m being the bit list of the rest after the
\* longest such prefix, and Programmable(m) otherwise, m being the bit list of
\* the whole string; "Fixed counter 0,1" gives Fixed(3), "0,1,2" gives
\* Programmable(7).
C8_CounterClass ==
    Called("parse_counters") =>
        LET n == LongestPrefixLen(input)
            m == parse_counter_values(SubSeq(input, n + 1, Len(input)), call.overflow_checks)
        IN  /\ ret.ok => /\ ret.v.kind = (IF n > 0 THEN "Fixed" ELSE "Programmable")
                         /\ m.ok
                         /\ ret.v.mask = MaskValue(m.v)
            /\ m.ok /\ FitsU8(m.v) => ret.ok
            /\ input = <<"F","i","x","e","d"," ","c","o","u","n","t","e","r"," ","0",",","1">> =>
                   Returned([kind |-> "Fixed", mask |-> 3])
            /\ input = <<"0",",","1",",","2">> =>
                   Returned([kind |-> "Programmable", mask |-> 7])

C8_Witness ==
    /\ Called("parse_counters")
    /\ input = <<"F","i","x","e","d"," ","c","o","u","n","t","e","r"," ","0",",","1">>
    /\ Returned([kind |-> "Fixed", mask |-> 3])

IsHexNumeral(s) ==
    /\ Len(s) > 2
    /\ s[1] = "0" /\ s[2] = "x"
    /\ \A i \in 3..Len(s) : DigitValue(s[i], 16) >= 0

\* lower-case digits, and no leading zero unless the numeral is "0x0"
IsCanonicalHex(s) ==
    /\ IsHexNumeral(s)
    /\ \A i \in 3..Len(s) : LowerChar(s[i]) = s[i]
    /\ Len(s) > 3 => s[3] # "0"

\* C9 as stated: every "0x" + hex digits string decoded by parse_number and
\* encoded again in hexadecimal with the "0x" prefix is the original string.
C9_HexRoundTrip ==
    Called("parse_number") /\ IsHexNumeral(input) => ret.ok /\ to_hex(ret.v) = input

\* C9 amended: the round trip reproduces every "0x" numeral of one to sixteen
\* digits that are lower-case and have no leading zero (other than "0x0"
\* itself); any other such numeral decodes to a value whose encoding differs
\* from it.
C9_CanonicalHexRoundTrip ==
    Called("parse_number") /\ IsHexNumeral(input) /\ Len(input) <= 18 =>
        /\ ret.ok
        /\ (to_hex(ret.v) = input) <=> IsCanonicalHex(input)

C9_Witness ==
    /\ Called("parse_number")
    /\ input = <<"0","x","a","1">>
    /\ ret.ok /\ ret.v = 161 /\ to_hex(ret.v) = input

(***************************************************************************)
(* Properties of the compile pass (specification Spec).                    *)
(***************************************************************************)
\* everything written to filewriter so far, in order
Output == disk \o buf

Items(kind) == {i \in 1..Len(Output) : Output[i].item = kind}

ParseFailures == {"File::open", "serde_json::from_reader"}

\* C1: counters.rs is neither created nor written before every in-scope data
\* file has been opened and parsed; when a data file fails to parse, no output
\* file exists and no table text has been written.
C1_AllOrNothing ==
    /\ created \/ Output # <<>> => \A f \in DOMAIN data_files : f \in DOMAIN parsed
    /\ error \in ParseFailures => ~created /\ Output = <<>>

Markers ==
    { <<"_","c","o","r","e","_">>,
      <<"_","u","n","c","o","r","e","_">>,
      <<"_","m","a","t","r","i","x","_">>,
      <<"_","F","P","_","A","R","I","T","H","_","I","N","S","T","_">>,
      <<"_","f","p","_","a","r","i","t","h","_","i","n","s","t","_">> }

HasNoMarker(file_name) == \A m \in Markers : ~contains(file_name, m)

\* C2: when a record names a data file without any of the markers, the pass
\* aborts with the unknown-suffix error at that record, while it still reads
\* the mapfile: counters.rs is not created and nothing is written; and
\* get_file_suffix gives no category to such a name.
C2_UnknownSuffixAborts ==
    \A i \in 1..Len(mapfile) :
          HasNoMarker(mapfile[i].file_name) =>
              /\ ~get_file_suffix(mapfile[i].file_name).ok
              /\ pc = "panic"
              /\ error = "Unknown suffix"
              /\ i = Len(mapfile)
              /\ ~created
              /\ Output = <<>>
              /\ mapfile[i].file_name \notin DOMAIN data_files

C2_Witness ==
    /\ Len(mapfile) = 2
    /\ ~HasNoMarker(mapfile[1].file_name)
    /\ HasNoMarker(mapfile[2].file_name)
    /\ pc = "panic" /\ error = "Unknown suffix" /\ ~created

SignaturesOf(file) == {data_files[file][i][1] : i \in 1..Len(data_files[file])}

\* the first file-group, in the order the map was iterated, that has the signature
FirstGroupWith(sig) ==
    order[CHOOSE i \in 1..Len(order) :
              /\ sig \in SignaturesOf(order[i])
              /\ \A j \in 1..(i - 1) : sig \notin SignaturesOf(order[j])]

InScope(file_name) ==
    \/ contains(file_name, <<"_","c","o","r","e","_">>)
    \/ contains(file_name, <<"_","u","n","c","o","r","e","_">>)

RowsNaming(file_name) == SelectSeq(mapfile, LAMBDA r : r.file_name = file_name)

TuplesOf(rows) ==
    [i \in 1..Len(rows) |-> <<rows[i].family_model, rows[i].version, rows[i].event_type>>]

\* C4: once all records are read, the keys of data_files are exactly the file
\* names of the records with a core or uncore suffix, and each key holds the
\* (signature, version, event type) tuples of the records naming it, in record
\* order, none lost or repeated; matrix and fparith records add nothing and
\* raise no error.
C4_FileGroups ==
    pc # "load" /\ error # "Unknown suffix" =>
        /\ DOMAIN data_files =
               {mapfile[i].file_name : i \in {j \in 1..Len(mapfile) : InScope(mapfile[j].file_name)}}
        /\ \A f \in DOMAIN data_files : data_files[f] = TuplesOf(RowsNaming(f))

C4_Witness ==
    /\ pc = "map"
    /\ Len(mapfile) = 2
    /\ mapfile[1].file_name = mapfile[2].file_name
    /\ mapfile[1].family_model # mapfile[2].family_model
    /\ \E f \in DOMAIN data_files : Len(data_files[f]) = 2

\* C5: the event table emitted for an architecture has an entry for every
\* event name in the records of any of the architecture's data files, each
\* name being a key once (the entries are a set of keys).
C5_EventUnion ==
    \A k \in Items("table") :
        \A f \in Range(architectures[Output[k].variable]) :
            \A e \in Range(parsed[f]) : e \in Output[k].entries

TablesNamed(variable) == {k \in Items("table") : Output[k].variable = variable}

\* C10: when the pass completes, every architecture variable that is a value
\* of COUNTER_MAP has exactly one event table emitted under its name, and at
\* no time is an event table emitted twice under one name, also when several
\* data files give the same variable name.
C10_ReferentialIntegrity ==
    /\ pc = "done" =>
          \A k \in Items("COUNTER_MAP") :
              \A i \in 1..Len(Output[k].entries) :
                  Cardinality(TablesNamed(Output[k].entries[i][2])) = 1
    /\ \A k \in Items("table") : Cardinality(TablesNamed(Output[k].variable)) = 1

C10_Witness ==
    /\ pc = "done"
    /\ \E arch \in DOMAIN architectures :
          /\ Len(architectures[arch]) = 2
          /\ Cardinality(TablesNamed(arch)) = 1
          /\ \E k \in Items("COUNTER_MAP") :
                \E i \in 1..Len(Output[k].entries) : Output[k].entries[i][2] = arch

====
